---- MODULE Spec2Model ----
(***************************************************************************)
(* Model of the student-registration validation service                    *)
(* (Sistem_Validasi_Registrasi_Mahasiswa.py) and of the checkout           *)
(* coordinator (refactor_solid.py).                                        *)
(*                                                                         *)
(* A Course is a record [code, name, sks, prerequisites, schedule]; a      *)
(* schedule entry is a tuple <<day, start_minute, end_minute>>; a          *)
(* Registration is [student_name, completed_courses, selected_courses].    *)
(* A rule's validate is an operator returning the pair <<ok, msg>>; the    *)
(* messages are the strings the code builds.                               *)
(***************************************************************************)
EXTENDS Integers, Sequences, FiniteSets, TLC

VARIABLES
    rules,      \* RegistrationService.rules, fixed at construction
    reg,        \* the registration the caller has built / the argument of the call
    pc,         \* "idle" (constructed), "loop" (inside the for loop), "done" (returned)
    idx,        \* position of the for loop in self.rules (1-based)
    errors,     \* the local list errors of run_registration
    calls,      \* history: the validate invocations of the current call, in order
    result,     \* the value returned by the last run_registration call
    seen,       \* history: <<>> or one remembered earlier call <<[reg, result]>>
    orders,     \* the Order objects: customer_name |-> [total_price, status]
    cpc,        \* position inside run_checkout
    cur,        \* the order passed to run_checkout
    payment_success, \* local variable of run_checkout
    trace,      \* history: events of the current run_checkout call, in order
    sent,       \* history: how many notifications were sent for each order
    ret,        \* the value returned by the last run_checkout call
    ncheckouts  \* number of run_checkout calls started

regvars == <<rules, reg, pc, idx, errors, calls, result, seen>>
covars == <<orders, cpc, cur, payment_success, trace, sent, ret, ncheckouts>>
vars == <<rules, reg, pc, idx, errors, calls, result, seen,
          orders, cpc, cur, payment_success, trace, sent, ret, ncheckouts>>

-----------------------------------------------------------------------------
(* Bounds *)

MaxRules == 3

MaxSelected == 3

MaxEntries == 3

MaxPrereqs == 3

MaxCheckouts == 3

-----------------------------------------------------------------------------
(* Models: Course, Registration *)

Course(code, name, sks, prerequisites, schedule) ==
    [code |-> code, name |-> name, sks |-> sks,
     prerequisites |-> prerequisites, schedule |-> schedule]

Registration(student_name, completed_courses, selected_courses) ==
    [student_name |-> student_name, completed_courses |-> completed_courses,
     selected_courses |-> selected_courses]

minutes(h, m) == h * 60 + m

-----------------------------------------------------------------------------
(* SksLimitRule *)

SksLimitRule(max_sks) == [kind |-> "SksLimitRule", max_sks |-> max_sks]

RECURSIVE SumFrom(_, _, _)
SumFrom(courses, k, acc) ==
    IF k > Len(courses) THEN acc
    ELSE SumFrom(courses, k + 1, acc + courses[k].sks)

SumSks(courses) == SumFrom(courses, 1, 0)

SksExceedsAtCap(total, max_sks) == total >= max_sks

SksExceeds(total, max_sks) == total > max_sks

SksLimitValidate(rule, registration) ==
    LET total == SumSks(registration.selected_courses)
    IN  IF SksExceeds(total, rule.max_sks)
        THEN <<FALSE, "Total SKS (" \o ToString(total)
                      \o ") melebihi batas maksimum ("
                      \o ToString(rule.max_sks) \o ").">>
        ELSE <<TRUE, "SKS OK.">>

-----------------------------------------------------------------------------
(* PrerequisiteRule *)

PrerequisiteRule == [kind |-> "PrerequisiteRule"]

SeqToSet(s) == {s[k] : k \in 1..Len(s)}

CodesOf(courses) == {courses[k].code : k \in 1..Len(courses)}

CompletedOrSelected(registration) ==
    SeqToSet(registration.completed_courses)
        \cup CodesOf(registration.selected_courses)

CompletedSet(registration) == SeqToSet(registration.completed_courses)

\* The nested for loops of lines 119-122: ci is the position in
\* selected_courses, pi the position in that course's prerequisites.
RECURSIVE MissingScan(_, _, _, _, _)
MissingScan(courses, completed, ci, pi, missing) ==
    IF ci > Len(courses) THEN missing
    ELSE IF pi > Len(courses[ci].prerequisites)
         THEN MissingScan(courses, completed, ci + 1, 1, missing)
         ELSE LET pre == courses[ci].prerequisites[pi]
              IN  IF pre \notin completed
                  THEN MissingScan(courses, completed, ci, pi + 1,
                                   Append(missing, <<courses[ci].code, pre>>))
                  ELSE MissingScan(courses, completed, ci, pi + 1, missing)

\* A scan that stops at the first missing prerequisite.
RECURSIVE MissingScanFirst(_, _, _, _, _)
MissingScanFirst(courses, completed, ci, pi, missing) ==
    IF ci > Len(courses) THEN missing
    ELSE IF pi > Len(courses[ci].prerequisites)
         THEN MissingScanFirst(courses, completed, ci + 1, 1, missing)
         ELSE LET pre == courses[ci].prerequisites[pi]
              IN  IF pre \notin completed
                  THEN Append(missing, <<courses[ci].code, pre>>)
                  ELSE MissingScanFirst(courses, completed, ci, pi + 1, missing)

PrereqMissingFirst(registration) ==
    MissingScanFirst(registration.selected_courses, CompletedSet(registration),
                     1, 1, <<>>)

PrereqMissing(registration) ==
    MissingScan(registration.selected_courses, CompletedSet(registration),
                1, 1, <<>>)

\* ", ".join(msgs)
RECURSIVE JoinComma(_)
JoinComma(msgs) ==
    IF Len(msgs) = 0 THEN ""
    ELSE IF Len(msgs) = 1 THEN msgs[1]
    ELSE msgs[1] \o ", " \o JoinComma(Tail(msgs))

PrerequisiteValidate(registration) ==
    LET missing == PrereqMissing(registration)
    IN  IF missing # <<>>
        THEN LET msgs == [k \in 1..Len(missing) |->
                            missing[k][1] \o " butuh " \o missing[k][2]]
             IN  <<FALSE, "Prasyarat tidak terpenuhi: " \o JoinComma(msgs)>>
        ELSE <<TRUE, "Prasyarat OK.">>

-----------------------------------------------------------------------------
(* JadwalBentrokRule *)

JadwalBentrokRule == [kind |-> "JadwalBentrokRule"]

\* f"{n:02d}"
Pad2(n) == IF 0 <= n /\ n < 10 THEN "0" \o ToString(n) ELSE ToString(n)

format_time(m) == Pad2(m \div 60) \o ":" \o Pad2(m % 60)

\* The nested for loops of lines 153-155: entries are <<day, s, e, code>>.
RECURSIVE EntriesScan(_, _, _, _)
EntriesScan(courses, ci, si, entries) ==
    IF ci > Len(courses) THEN entries
    ELSE IF si > Len(courses[ci].schedule)
         THEN EntriesScan(courses, ci + 1, 1, entries)
         ELSE LET se == courses[ci].schedule[si]
              IN  EntriesScan(courses, ci, si + 1,
                      Append(entries, <<se[1], se[2], se[3], courses[ci].code>>))

FlattenEntries(registration) ==
    EntriesScan(registration.selected_courses, 1, 1, <<>>)

OverlapsClosed(ei, ej) == ei[2] <= ej[3] /\ ej[2] <= ei[3]

Overlaps(ei, ej) == ei[2] < ej[3] /\ ej[2] < ei[3]

ConflictMessage(ei, ej) ==
    "Jadwal bentrok antara " \o ei[4] \o " (" \o format_time(ei[2]) \o "-"
        \o format_time(ei[3]) \o ") dan " \o ej[4] \o " ("
        \o format_time(ej[2]) \o "-" \o format_time(ej[3]) \o ")"

\* A scan without the early return: the last overlapping pair is reported.
RECURSIVE ScanPairsLast(_, _, _)
ScanPairsLast(entries, i, j) ==
    IF i > Len(entries) THEN <<TRUE, "Tidak ada jadwal bentrok.">>
    ELSE IF j > Len(entries) THEN ScanPairsLast(entries, i + 1, i + 2)
    ELSE LET rest == ScanPairsLast(entries, i, j + 1)
         IN  IF /\ entries[i][1] = entries[j][1]
                /\ Overlaps(entries[i], entries[j])
                /\ rest[1]
             THEN <<FALSE, ConflictMessage(entries[i], entries[j])>>
             ELSE rest

\* A scan whose inner loop breaks, instead of continuing, on a different day.
RECURSIVE ScanPairsBreak(_, _, _)
ScanPairsBreak(entries, i, j) ==
    IF i > Len(entries) THEN <<TRUE, "Tidak ada jadwal bentrok.">>
    ELSE IF j > Len(entries) THEN ScanPairsBreak(entries, i + 1, i + 2)
    ELSE IF entries[i][1] # entries[j][1]
         THEN ScanPairsBreak(entries, i + 1, i + 2)
    ELSE IF Overlaps(entries[i], entries[j])
         THEN <<FALSE, ConflictMessage(entries[i], entries[j])>>
    ELSE ScanPairsBreak(entries, i, j + 1)

\* The pair loops of lines 157-175, at outer index i and inner index j.
RECURSIVE ScanPairs(_, _, _)
ScanPairs(entries, i, j) ==
    IF i > Len(entries) THEN <<TRUE, "Tidak ada jadwal bentrok.">>
    ELSE IF j > Len(entries) THEN ScanPairs(entries, i + 1, i + 2)
    ELSE IF entries[i][1] # entries[j][1] THEN ScanPairs(entries, i, j + 1)
    ELSE IF Overlaps(entries[i], entries[j])
         THEN <<FALSE, ConflictMessage(entries[i], entries[j])>>
    ELSE ScanPairs(entries, i, j + 1)

JadwalBentrokValidate(registration) ==
    ScanPairs(FlattenEntries(registration), 1, 2)

-----------------------------------------------------------------------------
(* IValidationRule.validate: dispatch on the rule's class *)

Validate(rule, registration) ==
    CASE rule.kind = "SksLimitRule" -> SksLimitValidate(rule, registration)
      [] rule.kind = "PrerequisiteRule" -> PrerequisiteValidate(registration)
      [] rule.kind = "JadwalBentrokRule" -> JadwalBentrokValidate(registration)

-----------------------------------------------------------------------------
(* RegistrationService.run_registration *)

NoReg == Registration("", <<>>, <<>>)

NoResult == <<FALSE, <<>>>>

\* errors = []  (a fresh local list in every call)
StaleErrors == errors

FreshErrors == <<>>

\* if not ok: errors.append(msg)
CollectErrorFront(errs, ok, msg) == IF ~ok THEN <<msg>> \o errs ELSE errs

CollectError(errs, ok, msg) == IF ~ok THEN Append(errs, msg) ELSE errs

\* for rule in self.rules: the loop always proceeds to the next rule
LoopBreakOnFail(i, ok) == IF ok THEN i + 1 ELSE Len(rules) + 1

LoopNext(i, ok) == i + 1

\* if errors: return False, errors / return True, ["Validasi sukses."]
ReturnValue(errs) ==
    IF errs # <<>> THEN <<FALSE, errs>> ELSE <<TRUE, <<"Validasi sukses.">>>>

\* service.run_registration(r) is entered.  A finished earlier call may be
\* remembered in the history variable seen.
Call(r) ==
    /\ pc \in {"idle", "done"}
    /\ pc' = "loop"
    /\ reg' = r
    /\ idx' = 1
    /\ errors' = FreshErrors
    /\ calls' = <<>>
    /\ \E s \in (IF pc = "done"
                 THEN {seen, <<[reg |-> reg, result |-> result]>>}
                 ELSE {seen}) : seen' = s
    /\ UNCHANGED <<rules, result>>
    /\ UNCHANGED covars

\* One iteration of the for loop: ok, msg = rule.validate(registration)
Iterate ==
    /\ pc = "loop"
    /\ idx <= Len(rules)
    /\ LET out == Validate(rules[idx], reg)
       IN  /\ errors' = CollectError(errors, out[1], out[2])
           /\ calls' = Append(calls, [rule |-> idx, ok |-> out[1], msg |-> out[2]])
           /\ idx' = LoopNext(idx, out[1])
    /\ UNCHANGED <<rules, reg, pc, result, seen>>
    /\ UNCHANGED covars

\* The loop is exhausted: the call returns.
Return ==
    /\ pc = "loop"
    /\ idx > Len(rules)
    /\ result' = ReturnValue(errors)
    /\ pc' = "done"
    /\ UNCHANGED <<rules, reg, idx, errors, calls, seen>>
    /\ UNCHANGED covars

-----------------------------------------------------------------------------
(* CheckoutService.run_checkout *)

Order(customer_name, total_price, status) ==
    [customer_name |-> customer_name, total_price |-> total_price,
     status |-> status]

\* if payment_success:
PaymentBranchAlways(success) == TRUE

PaymentBranch(success) == success

\* checkout_service.run_checkout(orders[o]) is entered.
RunCheckout(o) ==
    /\ cpc \in {"idle", "done"}
    /\ ncheckouts < MaxCheckouts
    /\ ncheckouts' = ncheckouts + 1
    /\ cur' = o
    /\ trace' = <<>>
    /\ cpc' = "process"
    /\ UNCHANGED <<orders, payment_success, sent, ret>>
    /\ UNCHANGED regvars

\* payment_success = self.payment_processor.process(order): the processor
\* behind the interface reports success or failure.
Process(outcome) ==
    /\ cpc = "process"
    /\ payment_success' = outcome
    /\ trace' = Append(trace, <<"process", orders[cur].status>>)
    /\ cpc' = "branch"
    /\ UNCHANGED <<orders, cur, sent, ret, ncheckouts>>
    /\ UNCHANGED regvars

\* order.status = "paid"
MarkPaid ==
    /\ cpc = "branch"
    /\ PaymentBranch(payment_success)
    /\ orders' = [orders EXCEPT ![cur].status = "paid"]
    /\ trace' = Append(trace, <<"status", "paid">>)
    /\ cpc' = "notify"
    /\ UNCHANGED <<cur, payment_success, sent, ret, ncheckouts>>
    /\ UNCHANGED regvars

\* self.notifier.send(order); return True
NotifyAndReturn ==
    /\ cpc = "notify"
    /\ sent' = [sent EXCEPT ![cur] = @ + 1]
    /\ trace' = Append(trace, <<"send", orders[cur].status>>)
    /\ ret' = TRUE
    /\ cpc' = "done"
    /\ UNCHANGED <<orders, cur, payment_success, ncheckouts>>
    /\ UNCHANGED regvars

\* else: return False
ReturnFalse ==
    /\ cpc = "branch"
    /\ ~PaymentBranch(payment_success)
    /\ ret' = FALSE
    /\ cpc' = "done"
    /\ UNCHANGED <<orders, cur, payment_success, trace, sent, ncheckouts>>
    /\ UNCHANGED regvars

-----------------------------------------------------------------------------
(* Inputs: the demo's courses and registrations built from them *)

mat101 ==
    Course("MAT101", "Matematika Dasar", 3, <<>>,
           << <<"Senin", minutes(9, 0), minutes(11, 0)>> >>)

fis201 ==
    Course("FIS201", "Fisika I", 4, <<"MAT101">>,
           << <<"Senin", minutes(10, 30), minutes(12, 0)>> >>)

ifs300 ==
    Course("IFS300", "Ilmu Komputer Lanjut", 3, <<"MAT101", "FIS201">>,
           << <<"Selasa", minutes(9, 0), minutes(11, 0)>> >>)

ScenarioRegs ==
    {Registration("Ani", completed, selected) :
        completed \in {<<>>, <<"MAT101">>},
        selected \in {<<>>, <<fis201>>, <<mat101, fis201>>,
                      <<mat101, fis201, ifs300>>}}

RuleInstances == {SksLimitRule(7), PrerequisiteRule, JadwalBentrokRule}

SeqsUpTo(S, n) == UNION {[1..m -> S] : m \in 0..n}

RuleLists == SeqsUpTo(RuleInstances, MaxRules)

-----------------------------------------------------------------------------
(* Inputs of the single rules: generated courses *)

Codes == <<"MAT101", "FIS201", "IFS300">>

\* A flat list of items dealt out, in order, to the three courses.
Splits(n) == {ab \in (0..n) \X (0..n) : ab[1] <= ab[2]}

Part(flat, ab, k) ==
    CASE k = 1 -> SubSeq(flat, 1, ab[1])
      [] k = 2 -> SubSeq(flat, ab[1] + 1, ab[2])
      [] k = 3 -> SubSeq(flat, ab[2] + 1, Len(flat))

SksRegs ==
    {Registration("Ani", <<>>, selected) :
        selected \in SeqsUpTo({Course("MAT101", "Matematika Dasar", s, <<>>, <<>>) :
                                  s \in {2, 3, 4}}, MaxSelected)}

\* Prerequisite codes: two of the selected courses and one course that is
\* never selected.
PrereqCodes == {"MAT101", "FIS201", "KIM100"}

CompletedLists ==
    {<<>>, <<"MAT101">>, <<"KIM100", "MAT101">>, <<"FIS201", "KIM100", "FIS201">>,
     <<"MAT101", "FIS201", "KIM100">>}

PreRegs ==
    {Registration("Ani", completed,
        [k \in 1..3 |-> Course(Codes[k], "", 3, Part(fs[1], fs[2], k), <<>>)]) :
        completed \in CompletedLists,
        fs \in UNION {{<<flat, ab>> : ab \in Splits(Len(flat))} :
                        flat \in SeqsUpTo(PrereqCodes, MaxPrereqs)}}

\* Well-formed slots over two days and three times, and one inverted slot.
Slots ==
    {<<"Senin", minutes(9, 0), minutes(10, 30)>>,
     <<"Senin", minutes(9, 0), minutes(11, 0)>>,
     <<"Senin", minutes(10, 30), minutes(11, 0)>>,
     <<"Selasa", minutes(9, 0), minutes(11, 0)>>,
     <<"Senin", minutes(11, 0), minutes(10, 30)>>}

JadwalRegs ==
    {Registration("Ani", <<>>,
        [k \in 1..3 |-> Course(Codes[k], "", 3, <<>>, Part(fs[1], fs[2], k))]) :
        fs \in UNION {{<<flat, ab>> : ab \in Splits(Len(flat))} :
                        flat \in SeqsUpTo(Slots, MaxEntries)}}

AllRules(cap) == <<SksLimitRule(cap), PrerequisiteRule, JadwalBentrokRule>>

RuleCases ==
    {[reg |-> r, rules |-> AllRules(cap)] : r \in SksRegs, cap \in {5, 7}}
        \cup {[reg |-> r, rules |-> AllRules(24)] : r \in PreRegs \cup JadwalRegs}

-----------------------------------------------------------------------------
(* Specifications *)

InitCheckoutIdle ==
    /\ orders = <<>>
    /\ cpc = "idle"
    /\ cur = ""
    /\ payment_success = FALSE
    /\ trace = <<>>
    /\ sent = <<>>
    /\ ret = FALSE
    /\ ncheckouts = 0

\* A service constructed with some rule list; no call yet.
Init ==
    /\ rules \in RuleLists
    /\ reg = NoReg
    /\ pc = "idle"
    /\ idx = 0
    /\ errors = <<>>
    /\ calls = <<>>
    /\ result = NoResult
    /\ seen = <<>>
    /\ InitCheckoutIdle

Next ==
    \/ \E r \in ScenarioRegs : Call(r)
    \/ Iterate
    \/ Return

Spec == Init /\ [][Next]_vars

\* A service constructed with the three rules, and a registration the caller
\* has built and submits once.
InitRules ==
    /\ \E c \in RuleCases : rules = c.rules /\ reg = c.reg
    /\ pc = "idle"
    /\ idx = 0
    /\ errors = <<>>
    /\ calls = <<>>
    /\ result = NoResult
    /\ seen = <<>>
    /\ InitCheckoutIdle

CallBuilt == pc = "idle" /\ Call(reg)

NextRules ==
    \/ CallBuilt
    \/ Iterate
    \/ Return

SpecRules == InitRules /\ [][NextRules]_vars

\* Two orders, as constructed by the caller, and a checkout service.
OrderNames == {"Andi", "Budi"}

InitCheckout ==
    /\ \E st \in [OrderNames -> {"open", "cancelled"}] :
          orders = [o \in OrderNames |-> Order(o, 500000, st[o])]
    /\ cpc = "idle"
    /\ cur = "Andi"
    /\ payment_success = FALSE
    /\ trace = <<>>
    /\ sent = [o \in OrderNames |-> 0]
    /\ ret = FALSE
    /\ ncheckouts = 0
    /\ rules = <<>>
    /\ reg = NoReg
    /\ pc = "idle"
    /\ idx = 0
    /\ errors = <<>>
    /\ calls = <<>>
    /\ result = NoResult
    /\ seen = <<>>

NextCheckout ==
    \/ \E o \in OrderNames : RunCheckout(o)
    \/ \E outcome \in BOOLEAN : Process(outcome)
    \/ MarkPaid
    \/ NotifyAndReturn
    \/ ReturnFalse

SpecCheckout == InitCheckout /\ [][NextCheckout]_vars

-----------------------------------------------------------------------------
(* Properties of RegistrationService.run_registration (under Spec) *)

\* The outcome of the k-th rule of the list on the submitted registration.
Outcome(k) == Validate(rules[k], reg)

FailingRules == {k \in 1..Len(rules) : ~Outcome(k)[1]}

\* The k-th smallest element of a finite set of numbers.
RECURSIVE Nth(_, _)
Nth(S, k) ==
    LET m == CHOOSE x \in S : \A y \in S : x <= y
    IN  IF k = 1 THEN m ELSE Nth(S \ {m}, k - 1)

\* C1: when run_registration has returned, passed is the AND of the rules'
\* outcomes; if some rule fails, messages is exactly the failing rules'
\* messages in rule-list order; otherwise it is the single success message.
C1_Aggregate ==
    pc = "done" =>
        /\ result[1] = (\A k \in 1..Len(rules) : Outcome(k)[1])
        /\ FailingRules # {} =>
              result[2] = [n \in 1..Cardinality(FailingRules) |->
                              Outcome(Nth(FailingRules, n))[2]]
        /\ FailingRules = {} => result[2] = <<"Validasi sukses.">>

\* A returned call where two different rules, at positions 1 and 3, fail and
\* the rule at position 2 passes.
C1_Witness ==
    /\ pc = "done"
    /\ Len(rules) = 3
    /\ FailingRules = {1, 3}
    /\ rules[1] # rules[3]
    /\ result[2] = <<Outcome(1)[2], Outcome(3)[2]>>

\* C2: during a call the rules invoked so far are exactly the rules at
\* positions 1..idx-1, each once and in list order, whatever their outcomes;
\* when the call has returned every rule of the list has been invoked.
C2_AllRulesInvoked ==
    /\ pc = "loop" =>
          /\ idx <= Len(rules) + 1
          /\ [k \in 1..Len(calls) |-> calls[k].rule] = [k \in 1..(idx - 1) |-> k]
    /\ pc = "done" =>
          [k \in 1..Len(calls) |-> calls[k].rule] = [k \in 1..Len(rules) |-> k]

\* A returned call whose first rule failed and whose later rules were invoked.
C2_Witness ==
    /\ pc = "done"
    /\ Len(rules) = 3
    /\ Len(calls) = 3
    /\ ~calls[1].ok
    /\ calls[3].ok

\* C7: a call returns what a remembered earlier call of the same service
\* returned for the same registration, whatever calls happened in between.
C7_SameInputSameResult ==
    (pc = "done" /\ Len(seen) = 1 /\ seen[1].reg = reg)
        => result = seen[1].result

\* A failing registration submitted again after an earlier call with it.
C7_Witness ==
    /\ pc = "done"
    /\ Len(seen) = 1
    /\ seen[1].reg = reg
    /\ Len(rules) = 3
    /\ ~result[1]
    /\ Len(result[2]) = 2

-----------------------------------------------------------------------------
(* Properties of the three rules (under SpecRules) *)

CallsOf(kind) == {k \in 1..Len(calls) : rules[calls[k].rule].kind = kind}

RECURSIVE TotalCredits(_)
TotalCredits(courses) ==
    IF courses = <<>> THEN 0
    ELSE Head(courses).sks + TotalCredits(Tail(courses))

\* C3: SksLimitRule.validate passes iff the sum of the selected courses'
\* credit weights is <= max_sks; an empty selection passes (the caps are
\* positive, as the rule's contract requires).
C3_SksLimit ==
    \A k \in CallsOf("SksLimitRule") :
        /\ calls[k].ok <=>
              TotalCredits(reg.selected_courses) <= rules[calls[k].rule].max_sks
        /\ reg.selected_courses = <<>> => calls[k].ok

\* A selection of several courses whose credits add up to exactly the cap.
C3_Witness ==
    \E k \in CallsOf("SksLimitRule") :
        /\ calls[k].ok
        /\ Len(reg.selected_courses) >= 2
        /\ TotalCredits(reg.selected_courses) = rules[calls[k].rule].max_sks

IsCompleted(code) ==
    \E n \in 1..Len(reg.completed_courses) : reg.completed_courses[n] = code

\* The (course position, prerequisite position) occurrences.
Occurrences ==
    UNION {{<<c, p>> : p \in 1..Len(reg.selected_courses[c].prerequisites)} :
              c \in 1..Len(reg.selected_courses)}

PrereqAt(cp) == reg.selected_courses[cp[1]].prerequisites[cp[2]]

MissingOccurrences == {cp \in Occurrences : ~IsCompleted(PrereqAt(cp))}

\* C4: PrerequisiteRule.validate passes iff every prerequisite of every
\* selected course is in completed_courses; co-selection does not count.
C4_Prerequisite ==
    \A k \in CallsOf("PrerequisiteRule") :
        calls[k].ok <=> MissingOccurrences = {}

\* The rule fails although every missing prerequisite is itself selected.
C4_Witness ==
    \E k \in CallsOf("PrerequisiteRule") :
        /\ ~calls[k].ok
        /\ \A cp \in MissingOccurrences :
              PrereqAt(cp) \in CodesOf(reg.selected_courses)

\* Occurrences in selected_courses order, then prerequisite order.
Before(a, b) == a[1] < b[1] \/ (a[1] = b[1] /\ a[2] < b[2])

RECURSIVE InOrder(_)
InOrder(S) ==
    IF S = {} THEN <<>>
    ELSE LET m == CHOOSE x \in S : \A y \in S \ {x} : Before(x, y)
         IN  <<m>> \o InOrder(S \ {m})

ExpectedMissing ==
    LET occ == InOrder(MissingOccurrences)
    IN  [n \in 1..Len(occ) |->
            <<reg.selected_courses[occ[n][1]].code, PrereqAt(occ[n])>>]

RECURSIVE ListText(_)
ListText(pairs) ==
    IF Len(pairs) = 1 THEN pairs[1][1] \o " butuh " \o pairs[1][2]
    ELSE pairs[1][1] \o " butuh " \o pairs[1][2] \o ", " \o ListText(Tail(pairs))

\* C9: a failing PrerequisiteRule message lists every missing
\* (course, prerequisite) occurrence, in selected_courses order then
\* prerequisite order, one entry per occurrence.
C9_AllMissingListed ==
    \A k \in CallsOf("PrerequisiteRule") :
        ~calls[k].ok =>
            /\ Len(PrereqMissing(reg)) = Cardinality(MissingOccurrences)
            /\ calls[k].msg =
                  "Prasyarat tidak terpenuhi: " \o ListText(ExpectedMissing)

\* Two missing occurrences with a satisfied one between them.
C9_Witness ==
    \E k \in CallsOf("PrerequisiteRule") :
        /\ ~calls[k].ok
        /\ Cardinality(MissingOccurrences) = 2
        /\ \E a, b \in MissingOccurrences, c \in Occurrences \ MissingOccurrences :
              Before(a, c) /\ Before(c, b)

\* The flattened schedule entries <<day, start, end, code>>.
RECURSIVE Flat(_)
Flat(courses) ==
    IF courses = <<>> THEN <<>>
    ELSE LET c == Head(courses)
         IN  [n \in 1..Len(c.schedule) |->
                 <<c.schedule[n][1], c.schedule[n][2], c.schedule[n][3], c.code>>]
             \o Flat(Tail(courses))

FlatEntries == Flat(reg.selected_courses)

WellFormed == \A n \in 1..Len(FlatEntries) : FlatEntries[n][2] < FlatEntries[n][3]

Conflict(i, j) ==
    /\ FlatEntries[i][1] = FlatEntries[j][1]
    /\ FlatEntries[i][2] < FlatEntries[j][3]
    /\ FlatEntries[j][2] < FlatEntries[i][3]

ConflictPairs ==
    {ij \in (1..Len(FlatEntries)) \X (1..Len(FlatEntries)) :
        ij[1] < ij[2] /\ Conflict(ij[1], ij[2])}

\* C5: on well-formed entries JadwalBentrokRule.validate passes iff no two
\* distinct entries (of the same course or not) are on the same day and
\* overlap half-open; entries that only touch are no conflict.
C5_JadwalBentrok ==
    \A k \in CallsOf("JadwalBentrokRule") :
        WellFormed =>
            (calls[k].ok <=>
                ~ \E i, j \in 1..Len(FlatEntries) : i # j /\ Conflict(i, j))

\* The rule passes on three well-formed entries, two of them on the same day
\* with end_a = start_b, in the same course.
C5_Witness ==
    \E k \in CallsOf("JadwalBentrokRule") :
        /\ calls[k].ok
        /\ WellFormed
        /\ Len(FlatEntries) = 3
        /\ \E i, j \in 1..Len(FlatEntries) :
              /\ FlatEntries[i][1] = FlatEntries[j][1]
              /\ FlatEntries[i][3] = FlatEntries[j][2]
              /\ FlatEntries[i][4] = FlatEntries[j][4]

ClockText(m) ==
    CASE m = 540 -> "09:00"
      [] m = 630 -> "10:30"
      [] m = 660 -> "11:00"
      [] m = 720 -> "12:00"

EntryText(e) == e[4] \o " (" \o ClockText(e[2]) \o "-" \o ClockText(e[3]) \o ")"

FirstConflict ==
    CHOOSE ij \in ConflictPairs : \A kl \in ConflictPairs \ {ij} : Before(ij, kl)

\* C6: a failing JadwalBentrokRule reports the first overlapping same-day
\* pair (i, j), i < j, of the scan order, entry i named first, entry j second.
C6_FirstConflict ==
    \A k \in CallsOf("JadwalBentrokRule") :
        ~calls[k].ok =>
            /\ ConflictPairs # {}
            /\ calls[k].msg =
                  "Jadwal bentrok antara " \o EntryText(FlatEntries[FirstConflict[1]])
                      \o " dan " \o EntryText(FlatEntries[FirstConflict[2]])

\* Several overlapping pairs, the first of which is not the pair (1, 2), and
\* a later one of which would give another message.
C6_Witness ==
    \E k \in CallsOf("JadwalBentrokRule") :
        /\ ~calls[k].ok
        /\ Cardinality(ConflictPairs) >= 2
        /\ FirstConflict # <<1, 2>>
        /\ \E kl \in ConflictPairs :
              EntryText(FlatEntries[kl[1]]) # EntryText(FlatEntries[FirstConflict[1]])

CoursePermutations(n) ==
    {f \in [1..n -> 1..n] : \A a, b \in 1..n : f[a] = f[b] => a = b}

Permuted(f) ==
    [reg EXCEPT !.selected_courses =
        [n \in 1..Len(reg.selected_courses) |-> reg.selected_courses[f[n]]]]

\* C8: each rule, and the passed flag, gives the same pass/fail outcome on
\* every permutation of selected_courses.
C8_OrderIrrelevant ==
    pc = "done" =>
        \A f \in CoursePermutations(Len(reg.selected_courses)) :
            /\ \A k \in 1..Len(calls) :
                  Validate(rules[calls[k].rule], Permuted(f))[1] = calls[k].ok
            /\ result[1] = (\A k \in 1..Len(rules) : Validate(rules[k], Permuted(f))[1])

\* A permutation under which the schedule rule fails with another message.
C8_Witness ==
    /\ pc = "done"
    /\ \E f \in CoursePermutations(Len(reg.selected_courses)) :
          \E k \in CallsOf("JadwalBentrokRule") :
              /\ ~calls[k].ok
              /\ Validate(rules[calls[k].rule], Permuted(f))[2] # calls[k].msg

-----------------------------------------------------------------------------
(* Properties of CheckoutService.run_checkout (under SpecCheckout) *)

Events == [n \in 1..Len(trace) |-> trace[n][1]]

\* C10: the processor is invoked once and first; on success the status is
\* set to "paid" before the single notification and the call returns True;
\* on failure the status is unchanged, nothing is sent and the call returns
\* False; a notified order always has status "paid".
C10_Checkout ==
    /\ cpc \in {"branch", "notify", "done"} => trace[1][1] = "process"
    /\ \A n \in 2..Len(trace) : trace[n][1] # "process"
    /\ (cpc = "done" /\ payment_success) =>
          /\ ret = TRUE
          /\ Events = <<"process", "status", "send">>
          /\ trace[3][2] = "paid"
          /\ orders[cur].status = "paid"
    /\ (cpc = "done" /\ ~payment_success) =>
          /\ ret = FALSE
          /\ Events = <<"process">>
          /\ orders[cur].status = trace[1][2]
    /\ \A o \in DOMAIN sent : sent[o] > 0 => orders[o].status = "paid"

\* A failed checkout of an open order after a successful one of the other.
C10_Witness ==
    /\ cpc = "done"
    /\ ~payment_success
    /\ ret = FALSE
    /\ orders[cur].status = "open"
    /\ \E o \in DOMAIN sent : o # cur /\ sent[o] = 1

====
